---- MODULE Spec2Model ----
(***************************************************************************)
(* A model of protogen (src/protogen/__init__.py): the declaration tree    *)
(* built from the descriptors of a CodeGeneratorRequest, the Registry, the *)
(* register and resolve passes of Options.run, and the Plugin response.    *)
(*                                                                         *)
(* Python objects live in a heap: a function from object ids to records.   *)
(* The id of a File is <<i>>, i its index in the request; the id of a      *)
(* declaration is the id of its file followed by its structural path.      *)
(* A Python str is a sequence of tokens ("." and "/" are tokens of their   *)
(* own), so that concatenation, startswith and slicing are computed.       *)
(* None is the empty tuple; no object id is empty.                         *)
(***************************************************************************)
EXTENDS Integers, Sequences, FiniteSets, TLC

VARIABLES
    req,                \* the decoded CodeGeneratorRequest
    pc,                 \* position of Options.run
    idx,                \* index (1-based) of the file the loop of run is at
    heap,               \* the objects built so far
    registry,           \* the Registry of the run
    files_to_generate,  \* Options.run's local list
    events,             \* the File._register / File._resolve calls made, in order
    calls,              \* the calls made inside the last File._resolve
    exc,                \* the exception that left Options.run, if any
    plugin,             \* the Plugin handed to the generation callback
    cb,                 \* the calls the generation callback made on the Plugin
    output,             \* what was written to the output stream
    gf,                 \* a GeneratedFile the generation callback writes to
    glog,               \* the calls made on gf, each with the gf it found
    rlog                \* the calls made on the Registry by a user of it

vars == <<req, pc, idx, heap, registry, files_to_generate, events, calls, exc,
          plugin, cb, output, gf, glog, rlog>>

----------------------------------------------------------------------------
(* Bounds of the model. *)

MaxFiles == 2
MaxGenerated == 2
MaxErrors == 2

----------------------------------------------------------------------------
(* Python values. *)

None == <<>>

NoException == [type |-> "NoException"]

Dot == <<".">>

startswith(s, tok) == Len(s) > 0 /\ s[1] = tok

\* s[1:]
DropFirst(s) == IF Len(s) = 0 THEN s ELSE SubSeq(s, 2, Len(s))

\* s[:-len(suffix)] for a suffix that is one token long
DropLast(s) == IF Len(s) = 0 THEN s ELSE SubSeq(s, 1, Len(s) - 1)

\* str.replace on tokens
replace(s, old, new) == [i \in 1..Len(s) |-> IF s[i] = old THEN new ELSE s[i]]

\* proto.HasField(name)
HasField(proto, name) == name \in proto.has

\* A dict is a sequence of [k, v] entries in insertion order.
DictHas(d, k) == \E i \in 1..Len(d) : d[i].k = k

DictGet(d, k) == d[CHOOSE i \in 1..Len(d) : d[i].k = k].v

DictPut(d, k, v) ==
    IF DictHas(d, k)
    THEN [i \in 1..Len(d) |-> IF d[i].k = k THEN [k |-> k, v |-> v] ELSE d[i]]
    ELSE Append(d, [k |-> k, v |-> v])

RECURSIVE MergeAll(_)
MergeAll(fs) == IF Len(fs) = 0 THEN <<>> ELSE Head(fs) @@ MergeAll(Tail(fs))

\* The ids of the children stored under field number `num` of the record at `id`.
ChildIds(id, num, n) == [i \in 1..n |-> id \o <<num, i - 1>>]

----------------------------------------------------------------------------
(* Kind, Cardinality (CardinalityOf here: FiniteSets owns the name). *)

KindNames ==
    << "DOUBLE", "FLOAT", "INT64", "UINT64", "INT32", "FIXED64", "FIXED32",
       "BOOL", "STRING", "GROUP", "MESSAGE", "BYTES", "UINT32", "ENUM",
       "SFIXED32", "SFIXED64", "SINT32", "SINT64" >>

Kind(n) == KindNames[n]

CardinalityNames == << "OPTIONAL", "REQUIRED", "REPEATED" >>

CardinalityOf(n) == CardinalityNames[n]

----------------------------------------------------------------------------
(* PyImportPath, PyIdent. *)

ReservedNames == { "class", "def", "import", "None", "bytes", "str" }

is_reserved_name(value) == Len(value) = 1 /\ value[1] \in ReservedNames

sanitize_name(value) == IF is_reserved_name(value) THEN value \o <<"_">> ELSE value

PyImportPath(path) == [path |-> path]

PyIdent(py_import_path, py_name) ==
    [py_import_path |-> py_import_path, py_name |-> sanitize_name(py_name)]

default_py_import_func(filename, package) ==
    replace(replace(filename, ".proto", "_pb2"), "/", ".")

----------------------------------------------------------------------------
(* Location. *)

RECURSIVE splitlines(_)
splitlines(s) ==
    IF Len(s) = 0 THEN <<>>
    ELSE IF \E k \in 1..Len(s) : s[k] = "\n"
         THEN LET k == CHOOSE j \in 1..Len(s) :
                         s[j] = "\n" /\ \A m \in 1..(j - 1) : s[m] # "\n"
              IN  <<SubSeq(s, 1, k - 1)>> \o splitlines(SubSeq(s, k + 1, Len(s)))
         ELSE <<s>>

RECURSIVE join(_, _)
join(sep, lines) ==
    IF Len(lines) = 0 THEN <<>>
    ELSE IF Len(lines) = 1 THEN lines[1]
    ELSE lines[1] \o sep \o join(sep, Tail(lines))

clean_comment(cmmt) ==
    LET lines == splitlines(cmmt)
        clean_lines == [i \in 1..Len(lines) |->
                          IF Len(lines[i]) > 0 /\ lines[i][1] = " "
                          THEN DropFirst(lines[i]) ELSE lines[i]]
    IN  join(<<"\n">>, clean_lines)

Location(source_file, path, leading_detached_comments, leading_comments, trailing_comments) ==
    [source_file |-> source_file,
     path |-> path,
     leading_detached_comments |->
        [i \in 1..Len(leading_detached_comments) |->
            clean_comment(leading_detached_comments[i])],
     leading_comments |-> clean_comment(leading_comments),
     trailing_comments |-> clean_comment(trailing_comments)]

resolve_location(file, path) ==
    LET locs == file.source_code_info
        hits == {i \in 1..Len(locs) : locs[i].path = path}
    IN  IF hits # {}
        THEN LET i == CHOOSE j \in hits : \A m \in hits : j <= m
             IN  Location(file.name, path, locs[i].leading_detached_comments,
                          locs[i].leading_comments, locs[i].trailing_comments)
        ELSE Location(file.name, path, <<>>, <<>>, <<>>)

----------------------------------------------------------------------------
(* The declaration tree builder.  Each constructor gives the heap fragment *)
(* of the object it builds and of the objects built inside it.  `file` and *)
(* `parent` are the objects handed to the constructor, `id` the id of the  *)
(* object under construction and Tail(id) its structural path.             *)

EnumValue_init(proto, parent, parent_file, id) ==
    id :> [cls |-> "EnumValue",
           id |-> id,
           proto |-> proto,
           py_ident |-> PyIdent(parent.py_ident.py_import_path,
                                parent.py_ident.py_name \o Dot \o proto.name),
           number |-> proto.number,
           parent |-> parent.id,
           location |-> resolve_location(parent_file.proto, Tail(id))]

\* The name and identifier of a declaration `name` of parent_file nested in
\* `parent` (None at top level).
FullName_flat(parent_file, parent, name) ==
    parent_file.proto.package \o Dot \o name

FullName(parent_file, parent, name) ==
    IF parent # None
    THEN parent.full_name \o Dot \o name
    ELSE parent_file.proto.package \o Dot \o name

ParentId(parent) == IF parent = None THEN None ELSE parent.id

Enum_self(proto, parent_file, parent, id) ==
    [cls |-> "Enum",
     id |-> id,
     proto |-> proto,
     full_name |-> FullName(parent_file, parent, proto.name),
     py_ident |-> IF parent = None
                  THEN PyIdent(parent_file.py_import_path, proto.name)
                  ELSE PyIdent(parent.py_ident.py_import_path,
                               parent.py_ident.py_name \o Dot \o proto.name),
     parent_file |-> parent_file.id,
     parent |-> ParentId(parent),
     location |-> resolve_location(parent_file.proto, Tail(id)),
     values |-> ChildIds(id, 2, Len(proto.value))]

Enum_values(self, parent_file) ==
    (self.id :> self)
    @@ MergeAll([i \in 1..Len(self.proto.value) |->
                    EnumValue_init(self.proto.value[i], self, parent_file,
                                   self.values[i])])

Enum_init(proto, parent_file, parent, id) ==
    Enum_values(Enum_self(proto, parent_file, parent, id), parent_file)

Field_init(proto, parent, parent_file, oneof, id) ==
    id :> [cls |-> "Field",
           id |-> id,
           proto |-> proto,
           py_name |-> proto.name,
           full_name |-> FullName(parent_file, parent, proto.name),
           parent |-> ParentId(parent),
           parent_file |-> parent_file.id,
           oneof |-> oneof,
           kind |-> Kind(proto.type),
           cardinality |-> CardinalityOf(proto.label),
           location |-> resolve_location(parent_file.proto, Tail(id)),
           message |-> None,
           enum |-> None]

OneOf_init(proto, parent, parent_file, id, members) ==
    id :> [cls |-> "OneOf",
           id |-> id,
           proto |-> proto,
           full_name |-> parent.full_name \o Dot \o proto.name,
           parent |-> parent.id,
           location |-> resolve_location(parent_file.proto, Tail(id)),
           fields |-> members]

Message_self(proto, parent_file, parent, id) ==
    [cls |-> "Message",
     id |-> id,
     proto |-> proto,
     py_ident |-> PyIdent(parent_file.py_import_path, proto.name),
     full_name |-> FullName(parent_file, parent, proto.name),
     parent_file |-> parent_file.id,
     parent |-> ParentId(parent),
     location |-> resolve_location(parent_file.proto, Tail(id)),
     oneofs |-> ChildIds(id, 8, Len(proto.oneof_decl)),
     fields |-> ChildIds(id, 2, Len(proto.field)),
     messages |-> ChildIds(id, 3, Len(proto.nested_type)),
     enums |-> ChildIds(id, 4, Len(proto.enum_type)),
     extension |-> ChildIds(id, 6, Len(proto.extension))]

\* The fields of `self` that belong to its oneof number o (1-based).
OneofMembers(self, o) ==
    SelectSeq(self.fields,
        LAMBDA f : \E i \in 1..Len(self.fields) :
                      /\ self.fields[i] = f
                      /\ HasField(self.proto.field[i], "oneof_index")
                      /\ self.proto.field[i].oneof_index = o - 1)

OneofOf(self, fproto) ==
    IF HasField(fproto, "oneof_index")
    THEN self.oneofs[fproto.oneof_index + 1] ELSE None

RECURSIVE Message_init(_, _, _, _)
RECURSIVE Message_children(_, _)

Message_children(self, parent_file) ==
    (self.id :> self)
    @@ MergeAll([o \in 1..Len(self.oneofs) |->
          OneOf_init(self.proto.oneof_decl[o], self, parent_file,
                     self.oneofs[o], OneofMembers(self, o))])
    @@ MergeAll([i \in 1..Len(self.fields) |->
          Field_init(self.proto.field[i], self, parent_file,
                     OneofOf(self, self.proto.field[i]), self.fields[i])])
    @@ MergeAll([i \in 1..Len(self.messages) |->
          Message_init(self.proto.nested_type[i], parent_file, self,
                       self.messages[i])])
    @@ MergeAll([i \in 1..Len(self.enums) |->
          Enum_init(self.proto.enum_type[i], parent_file, self, self.enums[i])])
    @@ MergeAll([i \in 1..Len(self.extension) |->
          Field_init(self.proto.extension[i], self, parent_file, None,
                     self.extension[i])])

Message_init(proto, parent_file, parent, id) ==
    Message_children(Message_self(proto, parent_file, parent, id), parent_file)

Method_init(proto, parent, parent_file, id) ==
    id :> [cls |-> "Method",
           id |-> id,
           proto |-> proto,
           full_name |-> parent.full_name \o Dot \o proto.name,
           grpc_path |-> <<"/">> \o parent.full_name \o <<"/">> \o proto.name,
           parent |-> parent.id,
           location |-> resolve_location(parent_file.proto, Tail(id))]

Service_self(proto, parent, id) ==
    [cls |-> "Service",
     id |-> id,
     proto |-> proto,
     py_ident |-> PyIdent(parent.py_import_path, proto.name),
     full_name |-> parent.proto.package \o Dot \o proto.name,
     parent_file |-> parent.id,
     location |-> resolve_location(parent.proto, Tail(id)),
     methods |-> ChildIds(id, 2, Len(proto.method))]

Service_methods(self, parent) ==
    (self.id :> self)
    @@ MergeAll([i \in 1..Len(self.methods) |->
          Method_init(self.proto.method[i], self, parent, self.methods[i])])

Service_init(proto, parent, id) ==
    Service_methods(Service_self(proto, parent, id), parent)

File_self(proto, generate, id) ==
    [cls |-> "File",
     id |-> id,
     proto |-> proto,
     generated_filename_prefix |-> DropLast(proto.name),
     py_import_path |->
         PyImportPath(default_py_import_func(proto.name, proto.package)),
     py_package_name |-> proto.package,
     generate |-> generate,
     dependencies |-> <<>>,
     messages |-> ChildIds(id, 4, Len(proto.message_type)),
     enums |-> ChildIds(id, 5, Len(proto.enum_type)),
     services |-> ChildIds(id, 6, Len(proto.service)),
     extensions |-> ChildIds(id, 7, Len(proto.extension))]

File_children(self) ==
    (self.id :> self)
    @@ MergeAll([i \in 1..Len(self.messages) |->
          Message_init(self.proto.message_type[i], self, None, self.messages[i])])
    @@ MergeAll([i \in 1..Len(self.enums) |->
          Enum_init(self.proto.enum_type[i], self, None, self.enums[i])])
    @@ MergeAll([i \in 1..Len(self.services) |->
          Service_init(self.proto.service[i], self, self.services[i])])
    @@ MergeAll([i \in 1..Len(self.extensions) |->
          Field_init(self.proto.extension[i], None, self, None,
                     self.extensions[i])])

File_init(proto, generate, id) == File_children(File_self(proto, generate, id))

----------------------------------------------------------------------------
(* Registry. *)

Registry_init ==
    [services_by_name |-> <<>>, messages_by_name |-> <<>>,
     enums_by_name |-> <<>>, files_by_name |-> <<>>]

register_file(reg, file) ==
    [reg EXCEPT !.files_by_name = DictPut(@, file.proto.name, file.id)]

register_service(reg, service) ==
    [reg EXCEPT !.services_by_name = DictPut(@, service.full_name, service.id)]

register_message_nowhere(reg, message) == reg

register_message(reg, message) ==
    [reg EXCEPT !.messages_by_name = DictPut(@, message.full_name, message.id)]

register_enum_keeps_first(reg, enum) ==
    IF DictHas(reg.enums_by_name, enum.full_name) THEN reg
    ELSE [reg EXCEPT !.enums_by_name = DictPut(@, enum.full_name, enum.id)]

register_enum(reg, enum) ==
    [reg EXCEPT !.enums_by_name = DictPut(@, enum.full_name, enum.id)]

file_by_name(reg, name) ==
    IF ~DictHas(reg.files_by_name, name) THEN None
    ELSE DictGet(reg.files_by_name, name)

service_by_name(reg, name) ==
    IF ~DictHas(reg.services_by_name, name) THEN None
    ELSE DictGet(reg.services_by_name, name)

message_by_name(reg, name) ==
    IF ~DictHas(reg.messages_by_name, name) THEN None
    ELSE DictGet(reg.messages_by_name, name)

enum_by_name(reg, name) ==
    IF ~DictHas(reg.enums_by_name, name) THEN None
    ELSE DictGet(reg.enums_by_name, name)

\* The id of the Exception instance _resolve_enum_type_name builds and returns.
ExceptionInstance == <<0>>

ExceptionObject ==
    [cls |-> "Exception", id |-> ExceptionInstance,
     args |-> <<"resolve without dot notation not implemented yet">>]

resolve_enum_type_name(reg, ref, type_name) ==
    IF startswith(type_name, ".")
    THEN enum_by_name(reg, DropFirst(type_name))
    ELSE ExceptionInstance

resolve_message_type_name(reg, ref, type_name) ==
    IF startswith(type_name, ".")
    THEN message_by_name(reg, DropFirst(type_name))
    ELSE None

\* The Registry lookup the call fn(registry, ref, type_name) makes, fn one
\* of the two functions above.
LookupCalls(fn, type_name) ==
    IF startswith(type_name, ".")
    THEN << [op |-> IF fn = "resolve_enum_type_name"
                    THEN "enum_by_name" ELSE "message_by_name",
             arg |-> DropFirst(type_name)] >>
    ELSE << >>

----------------------------------------------------------------------------
(* Exceptions.  A constructor call binds its arguments as Python does: a   *)
(* keyword the signature lacks, or a parameter left unbound, is a          *)
(* TypeError raised in place of the exception under construction.          *)

ResolutionError(kwargs) ==
    IF DOMAIN kwargs = {"file", "desc", "ref"}
    THEN [type |-> "ResolutionError", file |-> kwargs.file,
          desc |-> kwargs.desc, ref |-> kwargs.ref]
    ELSE [type |-> "TypeError"]

InvalidDescriptorError(kwargs) ==
    IF DOMAIN kwargs = {"full_name", "msg"}
    THEN [type |-> "InvalidDescriptorError", full_name |-> kwargs.full_name,
          msg |-> kwargs.msg]
    ELSE [type |-> "TypeError"]

Raised(st) == st.exc.type # "NoException"

Raise(st, e) == [st EXCEPT !.exc = e]

\* obj.name = v
SetAttr(obj, name, v) == (name :> v) @@ obj

\* Python truthiness of an object reference or None
Truthy(v) == v # None

----------------------------------------------------------------------------
(* The register pass. *)

RECURSIVE Message_register(_, _, _)
RECURSIVE RegisterMessages(_, _, _)
RECURSIVE RegisterEnums(_, _, _)
RECURSIVE RegisterServices(_, _, _)

RegisterMessages(reg, h, ids) ==
    IF Len(ids) = 0 THEN reg
    ELSE RegisterMessages(Message_register(reg, h, Head(ids)), h, Tail(ids))

RegisterEnums(reg, h, ids) ==
    IF Len(ids) = 0 THEN reg
    ELSE RegisterEnums(register_enum(reg, h[Head(ids)]), h, Tail(ids))

Message_register_alone(reg, h, id) == register_message(reg, h[id])

Message_register(reg, h, id) ==
    LET r1 == register_message(reg, h[id])
        r2 == RegisterMessages(r1, h, h[id].messages)
    IN  RegisterEnums(r2, h, h[id].enums)

Service_register(reg, h, id) == register_service(reg, h[id])

RegisterServices(reg, h, ids) ==
    IF Len(ids) = 0 THEN reg
    ELSE RegisterServices(Service_register(reg, h, Head(ids)), h, Tail(ids))

File_register(reg, h, id) ==
    LET r1 == register_file(reg, h[id])
        r2 == RegisterMessages(r1, h, h[id].messages)
        r3 == RegisterEnums(r2, h, h[id].enums)
    IN  RegisterServices(r3, h, h[id].services)

----------------------------------------------------------------------------
(* The resolve pass.  st = [heap, exc, calls]: the heap as mutated so far, *)
(* the exception raised (a raise ends every enclosing loop) and the calls  *)
(* made.                                                                   *)

\* st with one more call noted
Called(st, op, arg) == [st EXCEPT !.calls = Append(@, [op |-> op, arg |-> arg])]

\* st after _resolve_message_type_name / _resolve_enum_type_name looked
\* type_name up and the result v was stored in attribute attr of object id
Stored(st, id, attr, v, fn, type_name) ==
    [st EXCEPT
       !.heap = (id :> SetAttr(st.heap[id], attr, v))
                @@ (IF v = ExceptionInstance
                    THEN ExceptionInstance :> ExceptionObject ELSE <<>>)
                @@ st.heap,
       !.calls = Append(@, [op |-> fn, arg |-> type_name])
                 \o LookupCalls(fn, type_name)]

FileNameOf(st, field) == st.heap[field.parent_file].proto.name

\* raise ResolutionError(file=.., desc=.., ref=..) when `failed`
RaiseIf(st, failed, e) == IF failed THEN Raise(st, e) ELSE st

Field_resolve_extendee(st, self, reg) ==
    IF HasField(self.proto, "extendee")
    THEN RaiseIf(Stored(st, self.id, "extendee",
                        resolve_message_type_name(reg, self.full_name,
                                                  self.proto.extendee),
                        "resolve_message_type_name", self.proto.extendee),
                 resolve_message_type_name(reg, self.full_name,
                                           self.proto.extendee) = None,
                 ResolutionError([file |-> FileNameOf(st, self),
                                  desc |-> self.full_name,
                                  ref |-> self.proto.extendee]))
    ELSE st

Field_resolve_enum(st, self, reg) ==
    IF Raised(st) \/ self.kind # "ENUM" THEN st
    ELSE IF ~HasField(self.proto, "type_name")
    THEN Raise(st, InvalidDescriptorError(
             [full_name |-> self.full_name,
              msg |-> <<"is of kind ENUM but has no type_name set">>]))
    ELSE RaiseIf(Stored(st, self.id, "enum",
                        resolve_enum_type_name(reg, self.full_name,
                                               self.proto.type_name),
                        "resolve_enum_type_name", self.proto.type_name),
                 ~Truthy(resolve_enum_type_name(reg, self.full_name,
                                                self.proto.type_name)),
                 ResolutionError([file |-> FileNameOf(st, self),
                                  desc |-> self.full_name,
                                  ref |-> self.proto.type_name]))

Field_resolve_message(st, self, reg) ==
    IF Raised(st) \/ self.kind # "MESSAGE" THEN st
    ELSE IF ~HasField(self.proto, "type_name")
    THEN Raise(st, InvalidDescriptorError(
             [full_name |-> self.full_name,
              msg |-> <<"is of kind MESSAGE but has no type_name set">>]))
    ELSE RaiseIf(Stored(st, self.id, "message",
                        resolve_message_type_name(reg, self.full_name,
                                                  self.proto.type_name),
                        "resolve_message_type_name", self.proto.type_name),
                 resolve_message_type_name(reg, self.full_name,
                                           self.proto.type_name) = None,
                 ResolutionError([file |-> FileNameOf(st, self),
                                  ref |-> self.full_name,
                                  type_name |-> self.proto.type_name]))

Field_resolve(st, id, reg) ==
    Field_resolve_message(
        Field_resolve_enum(
            Field_resolve_extendee(Called(st, "Field._resolve", id),
                                   st.heap[id], reg),
            st.heap[id], reg),
        st.heap[id], reg)

MethodFileName(st, self) == st.heap[st.heap[self.parent].parent_file].proto.name

Method_resolve_input(st, self, reg) ==
    RaiseIf(Stored(st, self.id, "input",
                   resolve_message_type_name(reg, self.full_name,
                                             self.proto.input_type),
                   "resolve_message_type_name", self.proto.input_type),
            resolve_message_type_name(reg, self.full_name,
                                      self.proto.input_type) = None,
            ResolutionError([file |-> MethodFileName(st, self),
                             desc |-> self.full_name,
                             ref |-> self.proto.input_type]))

Method_resolve_output(st, self, reg) ==
    IF Raised(st) THEN st
    ELSE RaiseIf(Stored(st, self.id, "output",
                        resolve_message_type_name(reg, self.full_name,
                                                  self.proto.output_type),
                        "resolve_message_type_name", self.proto.output_type),
                 resolve_message_type_name(reg, self.full_name,
                                           self.proto.output_type) = None,
                 ResolutionError([file |-> MethodFileName(st, self),
                                  desc |-> self.full_name,
                                  ref |-> self.proto.output_type]))

Method_resolve(st, id, reg) ==
    Method_resolve_output(
        Method_resolve_input(Called(st, "Method._resolve", id), st.heap[id], reg),
        st.heap[id], reg)

RECURSIVE Message_resolve(_, _, _)
RECURSIVE Service_resolve(_, _, _)
RECURSIVE ResolveSeq(_, _, _)

\* x._resolve(registry) for each x of the list attribute attr of object id,
\* in order, up to the first raise
ResolveAll(st, id, attr, reg) ==
    IF Raised(st) THEN st
    ELSE ResolveSeq(st, st.heap[id][attr], reg)

map_entry_option(message) ==
    /\ HasField(message.proto.options, "map_entry")
    /\ message.proto.options.map_entry

ResolveSeq(st, ids, reg) ==
    IF Len(ids) = 0 \/ Raised(st) THEN st
    ELSE ResolveSeq(
             CASE st.heap[Head(ids)].cls = "Message" ->
                      Message_resolve(st, Head(ids), reg)
               [] st.heap[Head(ids)].cls = "Field" ->
                      Field_resolve(st, Head(ids), reg)
               [] st.heap[Head(ids)].cls = "Service" ->
                      Service_resolve(st, Head(ids), reg)
               [] st.heap[Head(ids)].cls = "Method" ->
                      Method_resolve(st, Head(ids), reg),
             Tail(ids), reg)

Service_resolve(st, id, reg) == ResolveAll(st, id, "methods", reg)

\* the map-entry filter that ends Message._resolve
Message_clean_keeps_entries(st, id) == st

Message_clean(st, id) ==
    IF Raised(st) THEN st
    ELSE [st EXCEPT !.heap[id].messages =
             SelectSeq(@, LAMBDA m : ~map_entry_option(st.heap[m]))]

Message_resolve(st, id, reg) ==
    Message_clean(
        ResolveAll(
            ResolveAll(
                ResolveAll(st, id, "messages", reg),
                id, "fields", reg),
            id, "extension", reg),
        id)

\* the dependency loop of File._resolve
RECURSIVE ResolveDependencies(_, _, _, _)
ResolveDependencies(st, id, reg, deps) ==
    IF Len(deps) = 0 \/ Raised(st) THEN st
    ELSE IF file_by_name(reg, Head(deps)) = None
    THEN Raise(Called(st, "file_by_name", Head(deps)),
               ResolutionError(
                   [file |-> st.heap[id].proto.name,
                    desc |-> st.heap[id].proto.name,
                    ref |-> file_by_name(reg, Head(deps))]))
    ELSE ResolveDependencies(
             [Called(st, "file_by_name", Head(deps))
                 EXCEPT !.heap[id].dependencies =
                            Append(@, file_by_name(reg, Head(deps)))],
             id, reg, Tail(deps))

File_resolve(st, id, reg) ==
    ResolveAll(
        ResolveAll(
            ResolveAll(
                ResolveDependencies(st, id, reg, st.heap[id].proto.dependency),
                id, "messages", reg),
            id, "services", reg),
        id, "extensions", reg)

----------------------------------------------------------------------------
(* Field.is_map, map_key, map_value over a heap h. *)

is_map(message) ==
    /\ HasField(message.proto, "options")
    /\ HasField(message.proto.options, "map_entry")
    /\ message.proto.options.map_entry

Field_is_map(h, self) ==
    IF self.message = None THEN FALSE ELSE is_map(h[self.message])

Field_map_key(h, self) ==
    IF ~Field_is_map(h, self) THEN None ELSE h[self.message].fields[1]

Field_map_value(h, self) ==
    IF ~Field_is_map(h, self) THEN None ELSE h[self.message].fields[2]

----------------------------------------------------------------------------
(* GeneratedFile and Plugin. *)

GeneratedFile_init_marked(name, py_import_path) ==
    [name |-> name, py_import_path |-> py_import_path, buf |-> <<>>,
     import_mark |-> 0, imports |-> <<>>, indent |-> 0]

GeneratedFile_init(name, py_import_path) ==
    [name |-> name, py_import_path |-> py_import_path, buf |-> <<>>,
     import_mark |-> -1, imports |-> <<>>, indent |-> 0]

\* str(arg) of the arguments handed to P: a str is itself, an int its
\* decimal digits.
Digits == <<"0", "1", "2", "3", "4", "5", "6", "7", "8", "9">>

RECURSIVE str_int(_)
str_int(n) ==
    IF n < 0 THEN <<"-">> \o str_int(-n)
    ELSE IF n < 10 THEN <<Digits[n + 1]>>
    ELSE str_int(n \div 10) \o <<Digits[(n % 10) + 1]>>

str(arg) == IF arg.type = "int" THEN str_int(arg.value) ELSE arg.value

PyImportPath_eq(self, o) == self.path = o.path

PyImportPath_hash(self) == self.path

\* set.add on a set of PyImportPath, kept as the sequence its iteration
\* gives: an element equal to x (same hash, __eq__) keeps x out.
set_add_always(s, x) == Append(s, x)

set_add(s, x) ==
    IF \E i \in 1..Len(s) : /\ PyImportPath_hash(s[i]) = PyImportPath_hash(x)
                            /\ PyImportPath_eq(s[i], x)
    THEN s ELSE Append(s, x)

\* " ".join(["" for i in range(width + 1)])
Spaces(width) == [i \in 1..width |-> " "]

PrefixLines(prefix, lines) == [i \in 1..Len(lines) |-> prefix \o lines[i]]

indent(s, width) == join(<<"\n">>, PrefixLines(Spaces(width), splitlines(s)))

GeneratedFile_set_indent_unchecked(g, level) ==
    [g |-> [g EXCEPT !.indent = level], ret |-> g.indent, exc |-> NoException]

GeneratedFile_set_indent_returns_new(g, level) ==
    IF level < 0
    THEN [g |-> g, ret |-> None, exc |-> [type |-> "ValueError"]]
    ELSE [g |-> [g EXCEPT !.indent = level], ret |-> level,
          exc |-> NoException]

GeneratedFile_set_indent(g, level) ==
    IF level < 0
    THEN [g |-> g, ret |-> None, exc |-> [type |-> "ValueError"]]
    ELSE [g |-> [g EXCEPT !.indent = level], ret |-> g.indent,
          exc |-> NoException]

\* the body of the loop of P over its args; st = [g, line]
P_arg_always_qualified(st, arg) ==
    IF arg.type = "PyIdent"
    THEN [g |-> [st.g EXCEPT !.imports =
                     set_add(@, arg.value.py_import_path)],
          line |-> st.line \o arg.value.py_import_path.path \o Dot
                           \o arg.value.py_name]
    ELSE [st EXCEPT !.line = @ \o str(arg)]

P_arg(st, arg) ==
    IF arg.type = "PyIdent"
    THEN IF PyImportPath_eq(arg.value.py_import_path, st.g.py_import_path)
         THEN [st EXCEPT !.line = @ \o arg.value.py_name]
         ELSE [g |-> [st.g EXCEPT !.imports =
                          set_add(@, arg.value.py_import_path)],
               line |-> st.line \o arg.value.py_import_path.path \o Dot
                                \o arg.value.py_name]
    ELSE [st EXCEPT !.line = @ \o str(arg)]

RECURSIVE P_args(_, _)
P_args(st, args) ==
    IF Len(args) = 0 THEN st ELSE P_args(P_arg(st, Head(args)), Tail(args))

P_append(st) == [st.g EXCEPT !.buf = Append(@, indent(st.line, st.g.indent))]

GeneratedFile_P(g, args) == P_append(P_args([g |-> g, line |-> <<>>], args))

GeneratedFile_qualified_py_ident_forgets(g, ident) ==
    IF PyImportPath_eq(ident.py_import_path, g.py_import_path)
    THEN [g |-> g, ret |-> ident.py_name]
    ELSE [g |-> g, ret |-> ident.py_import_path.path \o Dot \o ident.py_name]

GeneratedFile_qualified_py_ident(g, ident) ==
    IF PyImportPath_eq(ident.py_import_path, g.py_import_path)
    THEN [g |-> g, ret |-> ident.py_name]
    ELSE [g |-> [g EXCEPT !.imports = set_add(@, ident.py_import_path)],
          ret |-> ident.py_import_path.path \o Dot \o ident.py_name]

GeneratedFile_print_import_first_wins(g) ==
    IF g.import_mark > -1 THEN g ELSE [g EXCEPT !.import_mark = Len(g.buf)]

GeneratedFile_print_import(g) == [g EXCEPT !.import_mark = Len(g.buf)]

ImportLines(imports) ==
    [i \in 1..Len(imports) |-> <<"import ">> \o imports[i].path]

\* the local `lines` of _proto
GeneratedFile_lines(g) ==
    IF g.import_mark > -1
    THEN SubSeq(g.buf, 1, g.import_mark)
         \o ImportLines(g.imports)
         \o SubSeq(g.buf, g.import_mark + 1, Len(g.buf))
    ELSE g.buf

GeneratedFile_proto(g) ==
    [name |-> g.name, content |-> join(<<"\n">>, GeneratedFile_lines(g))]

\* str.split(sep) and str.split(sep, 1)
RECURSIVE split(_, _)
split(s, sep) ==
    IF \E k \in 1..Len(s) : s[k] = sep
    THEN LET k == CHOOSE j \in 1..Len(s) :
                    s[j] = sep /\ \A m \in 1..(j - 1) : s[m] # sep
         IN  <<SubSeq(s, 1, k - 1)>> \o split(SubSeq(s, k + 1, Len(s)), sep)
    ELSE <<s>>

split_once(s, sep) ==
    IF \E k \in 1..Len(s) : s[k] = sep
    THEN LET k == CHOOSE j \in 1..Len(s) :
                    s[j] = sep /\ \A m \in 1..(j - 1) : s[m] # sep
         IN  <<SubSeq(s, 1, k - 1), SubSeq(s, k + 1, Len(s))>>
    ELSE <<s>>

\* the body of the loop of Options.run over req.parameter.split(",")
parse_param_first_wins(parameter, param) ==
    IF param = <<>> THEN parameter
    ELSE IF DictHas(parameter, split_once(param, "=")[1]) THEN parameter
    ELSE IF Len(split_once(param, "=")) = 1
         THEN DictPut(parameter, split_once(param, "=")[1], <<>>)
         ELSE DictPut(parameter, split_once(param, "=")[1],
                      split_once(param, "=")[2])

parse_param(parameter, param) ==
    IF param = <<>> THEN parameter
    ELSE IF Len(split_once(param, "=")) = 1
         THEN DictPut(parameter, split_once(param, "=")[1], <<>>)
         ELSE DictPut(parameter, split_once(param, "=")[1],
                      split_once(param, "=")[2])

RECURSIVE parse_params(_, _)
parse_params(parameter, params) ==
    IF Len(params) = 0 THEN parameter
    ELSE parse_params(parse_param(parameter, Head(params)), Tail(params))

parse_parameter(s) == parse_params(<<>>, split(s, ","))

Plugin_init(parameter, files) ==
    [parameter |-> parameter, files_to_generate |-> files,
     error |-> None, generated_files |-> <<>>]

Plugin_response(p) ==
    IF p.error # None
    THEN [has |-> {"error"}, error |-> p.error, file |-> <<>>]
    ELSE [has |-> {}, error |-> <<>>,
          file |-> [i \in 1..Len(p.generated_files) |->
                       GeneratedFile_proto(p.generated_files[i])]]

Plugin_new_generated_file(p, name, py_import_path) ==
    [p EXCEPT !.generated_files =
                  Append(@, GeneratedFile_init(name, py_import_path))]

Plugin_error_last_wins(p, msg) == [p EXCEPT !.error = msg]

Plugin_error(p, msg) ==
    IF p.error = None THEN [p EXCEPT !.error = msg] ELSE p

----------------------------------------------------------------------------
(* The descriptors of the requests explored. *)

NoOptions == [has |-> {}, map_entry |-> FALSE]

MapEntryOptions == [has |-> {"map_entry"}, map_entry |-> TRUE]

\* An optional field of a scalar kind (STRING).
ScalarField(name) ==
    [name |-> <<name>>, type |-> 9, label |-> 1, has |-> {},
     type_name |-> <<>>, extendee |-> <<>>, oneof_index |-> 0]

\* A field of kind `type` (11 MESSAGE, 14 ENUM) whose type reference is ref.
TypedField(name, type, label, ref) ==
    [ScalarField(name) EXCEPT !.type = type, !.label = label,
                              !.has = {"type_name"}, !.type_name = ref]

\* A field of kind `type` that carries no type reference.
UntypedField(name, type) == [ScalarField(name) EXCEPT !.type = type]

ExtensionOf(f, extendee) ==
    [f EXCEPT !.has = @ \cup {"extendee"}, !.extendee = extendee]

MemberOf(f, oneof_index) ==
    [f EXCEPT !.has = @ \cup {"oneof_index"}, !.oneof_index = oneof_index]

MessageProto(name, field, nested_type, enum_type, extension, oneof_decl, options) ==
    [name |-> <<name>>, field |-> field, nested_type |-> nested_type,
     enum_type |-> enum_type, extension |-> extension,
     oneof_decl |-> oneof_decl,
     has |-> IF options = NoOptions THEN {} ELSE {"options"},
     options |-> options]

EnumProto(name, values) ==
    [name |-> <<name>>,
     value |-> [i \in 1..Len(values) |->
                   [name |-> <<values[i]>>, number |-> i - 1]]]

FileProto(name, package, dependency, message_type, enum_type, service, extension) ==
    [name |-> name, package |-> package, dependency |-> dependency,
     message_type |-> message_type, enum_type |-> enum_type,
     service |-> service, extension |-> extension,
     source_code_info |->
        << [path |-> <<4, 0>>,
            leading_detached_comments |-> << <<" ", "detached", "\n">> >>,
            leading_comments |-> <<" ", "first", "\n", " ", " ", "second", "\n">>,
            trailing_comments |-> <<>>] >>]

\* References by absolute name, by relative name, and to nothing declared.
AbsRef(name) == Dot \o name

Ref(how, abs, rel) ==
    CASE how = "abs" -> AbsRef(abs)
      [] how = "rel" -> rel
      [] how = "missing" -> <<".", "pb", ".", "Nope">>

FileNameA == <<"a", ".proto">>
FileNameB == <<"dir", "/", "b", ".proto">>
FileNameC == <<"c", ".proto">>
FileNameMissing == <<"missing", ".proto">>

NameA == <<"pa", ".", "A">>
NameB == <<"pb", ".", "B">>
NameColor == <<"pa", ".", "A", ".", "Color">>
NameTagsEntry == <<"pa", ".", "A", ".", "TagsEntry">>

Faults == {"rel", "missing", "untyped"}

\* a.proto, package pa.  v chooses its dependency list, the type references
\* of A.b and A.color and its top-level extension.
FileA(v) ==
    LET TagsEntry == MessageProto("TagsEntry",
                        << ScalarField("key"), ScalarField("value") >>,
                        <<>>, <<>>, <<>>, <<>>, MapEntryOptions)
        Inner == MessageProto("Inner", << ScalarField("x") >>,
                        <<>>, <<>>, <<>>, <<>>, NoOptions)
        b == CASE v.bref = "none" -> ScalarField("b")
               [] v.bref = "untyped" -> UntypedField("b", 11)
               [] OTHER -> TypedField("b", 11, 1, Ref(v.bref, NameB, <<"B">>))
        color == IF v.cref = "untyped" THEN UntypedField("color", 14)
                 ELSE TypedField("color", 14, 1,
                                 Ref(v.cref, NameColor, <<"A", ".", "Color">>))
        A == MessageProto("A",
                << ScalarField("name"),
                   TypedField("self", 11, 1, AbsRef(NameA)),
                   b,
                   color,
                   TypedField("tags", 11, 3, AbsRef(NameTagsEntry)),
                   MemberOf(ScalarField("pick"), 0) >>,
                << TagsEntry, Inner >>,
                << EnumProto("Color", <<"RED", "GREEN">>) >>,
                <<>>,
                << [name |-> <<"choice">>] >>,
                NoOptions)
        ext == CASE v.ext = "none" -> <<>>
                 [] v.ext = "ok" ->
                      << ExtensionOf(ScalarField("ext"), AbsRef(NameA)) >>
                 [] v.ext = "untyped" ->
                      << ExtensionOf(UntypedField("ext", 11), AbsRef(NameA)) >>
                 [] v.ext = "untyped_missing" ->
                      << ExtensionOf(UntypedField("ext", 11),
                                     Ref("missing", NameA, <<"A">>)) >>
                 [] OTHER ->
                      << ExtensionOf(ScalarField("ext"),
                                     Ref(v.ext, NameA, <<"A">>)) >>
    IN  FileProto(FileNameA, <<"pa">>,
                  CASE v.dep = "none" -> <<>>
                    [] v.dep = "b" -> << FileNameB >>
                    [] v.dep = "missing" -> << FileNameMissing >>,
                  << A >>, << EnumProto("Status", <<"OK">>) >>, <<>>, ext)

AVariants ==
    LET all == [dep : {"none", "b", "missing"},
                bref : {"none", "abs"} \cup Faults,
                cref : {"abs"} \cup Faults,
                ext : {"none", "ok", "untyped", "untyped_missing", "missing", "rel"}]
        NFaults(v) == (IF v.dep = "missing" THEN 1 ELSE 0)
                      + (IF v.bref \in Faults THEN 1 ELSE 0)
                      + (IF v.cref \in Faults THEN 1 ELSE 0)
                      + (IF v.ext \notin {"none", "ok"} THEN 1 ELSE 0)
        Plain(v) == v.dep = "none" /\ v.bref = "none" /\ v.cref = "abs"
                    /\ v.ext = "none"
    IN  {v \in all :
           \/ NFaults(v) = 0 /\ (v.dep = "b" => v.bref = "abs")
           \/ NFaults(v) = 1 /\ \E w \in all :
                   /\ Plain(w)
                   /\ Cardinality({f \in DOMAIN v : v[f] # w[f]}) = 1}

\* dir/b.proto, package pb.  v chooses the type reference of B.a and the
\* input and output references of the method Svc.Get.
FileB(v) ==
    LET B == MessageProto("B",
                << IF v.aref = "none" THEN ScalarField("a")
                   ELSE TypedField("a", 11, 1, Ref(v.aref, NameA, <<"A">>)) >>,
                <<>>, <<>>, <<>>, <<>>, NoOptions)
        Svc == [name |-> <<"Svc">>,
                method |-> << [name |-> <<"Get">>,
                               input_type |-> Ref(v.input, NameB, <<"B">>),
                               output_type |-> Ref(v.output, NameB, <<"B">>)] >>]
    IN  FileProto(FileNameB, <<"pb">>,
                  IF v.aref = "abs" THEN << FileNameA >> ELSE <<>>,
                  << B >>, <<>>, << Svc >>, <<>>)

BVariants ==
    LET all == [aref : {"none", "abs"},
                input : {"abs", "rel", "missing"},
                output : {"abs", "rel", "missing"}]
    IN  {v \in all : /\ v.input = "abs" \/ v.output = "abs"
                     /\ v.aref = "abs" => v.input = "abs" /\ v.output = "abs"}

\* c.proto, package pc.d: one message with a field of its own type.
FileC ==
    FileProto(FileNameC, <<"pc", ".", "d">>, <<>>,
              << MessageProto("C",
                    << TypedField("next", 11, 1, AbsRef(<<"pc", ".", "d", ".", "C">>)) >>,
                    <<>>, << EnumProto("E", <<"ZERO">>) >>, <<>>, <<>>, NoOptions) >>,
              <<>>, <<>>, <<>>)

FilePool == {FileA(v) : v \in AVariants} \cup {FileB(v) : v \in BVariants} \cup {FileC}

\* The sequences of 1..MaxFiles files of the pool with distinct names.
RECURSIVE FileSeqs(_)
FileSeqs(n) ==
    IF n = 0 THEN { <<>> }
    ELSE LET shorter == FileSeqs(n - 1)
         IN  shorter \cup
             { Append(fs, f) : fs \in {x \in shorter : Len(x) = n - 1},
                               f \in FilePool }

DistinctNames(fs) ==
    \A i, j \in 1..Len(fs) : i # j => fs[i].name # fs[j].name

Requests ==
    { [proto_file |-> fs, file_to_generate |-> g, parameter |-> <<>>] :
        fs \in {x \in FileSeqs(MaxFiles) : Len(x) > 0 /\ DistinctNames(x)},
        g \in {"all", "first"} }

InFilesToGenerate(r, name) ==
    IF r.file_to_generate = "all"
    THEN \E i \in 1..Len(r.proto_file) : r.proto_file[i].name = name
    ELSE r.proto_file[1].name = name

GeneratedNames == { <<"x", ".out">>, <<"y", ".out">> }

ErrorMessages == { <<"boom">>, <<"bad input">> }

----------------------------------------------------------------------------
(* Options.run. *)

Init ==
    /\ req \in Requests
    /\ pc = "register"
    /\ idx = 1
    /\ heap = <<>>
    /\ registry = Registry_init
    /\ files_to_generate = <<>>
    /\ events = <<>>
    /\ calls = <<>>
    /\ exc = NoException
    /\ plugin = Plugin_init(<<>>, <<>>)
    /\ cb = [created |-> <<>>, errors |-> <<>>]
    /\ output = <<>>
    /\ gf = None
    /\ glog = <<>>
    /\ rlog = <<>>

\* the heap h holds the new File: file._register(registry)
Registered(h) ==
    /\ heap' = h
    /\ registry' = File_register(registry, h, <<idx>>)

\* file = File(proto, generate, py_import_func); file._register(registry)
RegisterFile ==
    /\ pc = "register"
    /\ Registered(File_init(req.proto_file[idx],
                            InFilesToGenerate(req, req.proto_file[idx].name),
                            <<idx>>) @@ heap)
    /\ events' = Append(events, [op |-> "register", file |-> idx])
    /\ pc' = "resolve"
    /\ UNCHANGED <<req, idx, files_to_generate, calls, exc, plugin, cb, output>>
    /\ UNCHANGED <<gf, glog, rlog>>

\* if generate: files_to_generate.append(file); after the last file of the
\* request, plugin = Plugin(parameter, files_to_generate)
NextFile(ftg) ==
    /\ files_to_generate' = ftg
    /\ idx' = idx + 1
    /\ IF idx = Len(req.proto_file)
       THEN /\ pc' = "callback"
            /\ plugin' = Plugin_init(parse_parameter(req.parameter), ftg)
       ELSE /\ pc' = "register"
            /\ plugin' = plugin

\* st is where file._resolve(registry) ended
Resolved(st) ==
    /\ heap' = st.heap
    /\ calls' = st.calls
    /\ IF Raised(st)
       THEN /\ exc' = st.exc
            /\ pc' = "raised"
            /\ UNCHANGED <<idx, files_to_generate, plugin>>
       ELSE /\ exc' = exc
            /\ NextFile(IF heap[<<idx>>].generate
                        THEN Append(files_to_generate, <<idx>>)
                        ELSE files_to_generate)

\* file._resolve(registry); if generate: files_to_generate.append(file)
ResolveFile ==
    /\ pc = "resolve"
    /\ Resolved(File_resolve([heap |-> heap, exc |-> NoException, calls |-> <<>>],
                             <<idx>>, registry))
    /\ events' = Append(events, [op |-> "resolve", file |-> idx])
    /\ UNCHANGED <<req, registry, cb, output>>
    /\ UNCHANGED <<gf, glog, rlog>>

\* the generation callback f(plugin) calls plugin.new_generated_file
NewGeneratedFile ==
    /\ pc = "callback"
    /\ Len(cb.created) < MaxGenerated
    /\ \E name \in GeneratedNames :
          /\ plugin' = Plugin_new_generated_file(
                           plugin, name,
                           heap[plugin.files_to_generate[1]].py_import_path)
          /\ cb' = [cb EXCEPT !.created = Append(@, name)]
    /\ UNCHANGED <<req, pc, idx, heap, registry, files_to_generate, events,
                   calls, exc, output>>
    /\ UNCHANGED <<gf, glog, rlog>>

\* the generation callback f(plugin) calls plugin.error
PluginError ==
    /\ pc = "callback"
    /\ Len(cb.errors) < MaxErrors
    /\ \E msg \in ErrorMessages :
          /\ plugin' = Plugin_error(plugin, msg)
          /\ cb' = [cb EXCEPT !.errors = Append(@, msg)]
    /\ UNCHANGED <<req, pc, idx, heap, registry, files_to_generate, events,
                   calls, exc, output>>
    /\ UNCHANGED <<gf, glog, rlog>>

\* f returns; resp = plugin._response(); output.write(resp)
WriteResponse ==
    /\ pc = "callback"
    /\ output' = Append(output, Plugin_response(plugin))
    /\ pc' = "done"
    /\ UNCHANGED <<req, idx, heap, registry, files_to_generate, events, calls,
                   exc, plugin, cb>>
    /\ UNCHANGED <<gf, glog, rlog>>

Next ==
    \/ RegisterFile
    \/ ResolveFile
    \/ NewGeneratedFile
    \/ PluginError
    \/ WriteResponse

Spec == Init /\ [][Next]_vars

----------------------------------------------------------------------------
(* A GeneratedFile under the calls of a generation callback. *)

MaxCalls == 4

\* A Python object: the value v with the identity oid.
Object(oid, v) == ("oid" :> oid) @@ v

StrArg(text) == [type |-> "str", value |-> text]

IntArg(n) == [type |-> "int", value |-> n]

IdentArg(ident) == [type |-> "PyIdent", value |-> ident]

OwnName == <<"pa", "_pb2", ".py">>

OwnModule == <<"pa", "_pb2">>

ModuleB == <<"dir", ".", "b", "_pb2">>

ModuleC == <<"grpc">>

IdentOwn == PyIdent(Object(1, PyImportPath(OwnModule)), <<"A">>)

IdentB == PyIdent(Object(2, PyImportPath(ModuleB)), <<"B">>)

IdentB2 == PyIdent(Object(3, PyImportPath(ModuleB)), <<"Svc">>)

IdentC == PyIdent(Object(4, PyImportPath(ModuleC)), <<"str">>)

\* the argument lists of the P calls explored
PArgs ==
    { <<>>,
      <<IdentArg(IdentOwn)>>,
      <<StrArg(<<"x", " ">>), IdentArg(IdentB), IntArg(17)>>,
      <<IdentArg(IdentB2)>>,
      <<IdentArg(IdentC), StrArg(<<"(", ")">>)>>,
      <<StrArg(<<"a", "\n", "b">>)>> }

QualifiedIdents == {IdentOwn, IdentB}

IndentLevels == {-1, 0, 2}

\* the iteration orders of a set of the given elements
Orders(s) ==
    {o \in [1..Len(s) -> {s[i] : i \in 1..Len(s)}] :
        \A i \in 1..Len(s) : \E j \in 1..Len(s) : o[j] = s[i]}

\* adding to a set may move its elements
Rehashed(old, new) == IF new = old THEN {old} ELSE Orders(new)

InitG ==
    /\ req = [parameter |-> <<>>, proto_file |-> <<>>, file_to_generate |-> "all"]
    /\ pc = "callback"
    /\ idx = 1
    /\ heap = <<>>
    /\ registry = Registry_init
    /\ files_to_generate = <<>>
    /\ events = <<>>
    /\ calls = <<>>
    /\ exc = NoException
    /\ plugin = Plugin_init(<<>>, <<>>)
    /\ cb = [created |-> <<>>, errors |-> <<>>]
    /\ output = <<>>
    /\ glog = <<>>
    /\ rlog = <<>>
    /\ gf = GeneratedFile_init(OwnName, PyImportPath(OwnModule))

\* the call op(args) found gf, leaves g, and returned ret or raised e
Called_on_gf(op, args, g, ret, e) ==
    /\ glog' = Append(glog, [op |-> op, args |-> args, pre |-> gf,
                             ret |-> ret, exc |-> e])
    /\ \E o \in Rehashed(gf.imports, g.imports) :
          gf' = [g EXCEPT !.imports = o]
    /\ UNCHANGED <<req, pc, idx, heap, registry, files_to_generate, events,
                   calls, exc, plugin, cb, output, rlog>>

Returned(op, args, r) == Called_on_gf(op, args, r.g, r.ret, r.exc)

CallP ==
    /\ Len(glog) < MaxCalls
    /\ \E args \in PArgs :
          Called_on_gf("P", args, GeneratedFile_P(gf, args), None,
                       NoException)

CallQualifiedPyIdent ==
    /\ Len(glog) < MaxCalls
    /\ \E ident \in QualifiedIdents :
          Returned("qualified_py_ident", ident,
                   [exc |-> NoException]
                   @@ GeneratedFile_qualified_py_ident(gf, ident))

CallPrintImport ==
    /\ Len(glog) < MaxCalls
    /\ Called_on_gf("print_import", <<>>, GeneratedFile_print_import(gf),
                    None, NoException)

CallSetIndent ==
    /\ Len(glog) < MaxCalls
    /\ \E level \in IndentLevels :
          Returned("set_indent", level, GeneratedFile_set_indent(gf, level))

CallProto ==
    /\ Len(glog) < MaxCalls
    /\ Called_on_gf("_proto", <<>>, gf, GeneratedFile_proto(gf), NoException)

NextG ==
    \/ CallP
    \/ CallQualifiedPyIdent
    \/ CallPrintImport
    \/ CallSetIndent
    \/ CallProto

SpecG == InitG /\ [][NextG]_vars

----------------------------------------------------------------------------
(* What the claims speak of. *)

\* The files whose File._resolve returned normally.
ResolvedFiles == {i \in 1..Len(req.proto_file) : i < idx}

ObjectsOf(fileset, cls) ==
    {id \in DOMAIN heap : id[1] \in fileset /\ heap[id].cls = cls}

\* The tree and the Registry of the whole request: every file built and
\* registered, none resolved.
AllBuilt(r) ==
    MergeAll([i \in 1..Len(r.proto_file) |->
                 File_init(r.proto_file[i], TRUE, <<i>>)])

RECURSIVE RegisterFirst(_, _, _)
RegisterFirst(h, n, reg) ==
    IF n = 0 THEN reg
    ELSE File_register(RegisterFirst(h, n - 1, reg), h, <<n>>)

AllRegistered(r) == RegisterFirst(AllBuilt(r), Len(r.proto_file), Registry_init)

IsAbsolute(ref) == Len(ref) > 0 /\ ref[1] = "."

DeclaredMessage(r, ref) ==
    IF IsAbsolute(ref) THEN message_by_name(AllRegistered(r), DropFirst(ref))
    ELSE None

DeclaredEnum(r, ref) ==
    IF IsAbsolute(ref) THEN enum_by_name(AllRegistered(r), DropFirst(ref))
    ELSE None

\* Every reference of the tree h names a declaration registered in reg.
TargetsDeclaredIn(h, reg) ==
    \A id \in DOMAIN h :
        /\ h[id].cls = "File" =>
              \A d \in 1..Len(h[id].proto.dependency) :
                  file_by_name(reg, h[id].proto.dependency[d]) # None
        /\ h[id].cls = "Field" =>
              /\ "extendee" \in h[id].proto.has =>
                    /\ IsAbsolute(h[id].proto.extendee)
                    /\ message_by_name(reg, DropFirst(h[id].proto.extendee)) # None
              /\ h[id].kind \in {"MESSAGE", "ENUM"} =>
                    /\ "type_name" \in h[id].proto.has
                    /\ IsAbsolute(h[id].proto.type_name)
              /\ h[id].kind = "MESSAGE" =>
                    message_by_name(reg, DropFirst(h[id].proto.type_name)) # None
              /\ h[id].kind = "ENUM" =>
                    enum_by_name(reg, DropFirst(h[id].proto.type_name)) # None
        /\ h[id].cls = "Method" =>
              /\ IsAbsolute(h[id].proto.input_type)
              /\ message_by_name(reg, DropFirst(h[id].proto.input_type)) # None
              /\ IsAbsolute(h[id].proto.output_type)
              /\ message_by_name(reg, DropFirst(h[id].proto.output_type)) # None

\* Every reference of the request names a declaration of the request.
TargetsDeclared(r) == TargetsDeclaredIn(AllBuilt(r), AllRegistered(r))

\* Every reference of the objects of `fileset` is linked to its target.
Linked(fileset) ==
    /\ \A f \in ObjectsOf(fileset, "File") :
          heap[f].dependencies =
              [d \in 1..Len(heap[f].proto.dependency) |->
                  file_by_name(AllRegistered(req), heap[f].proto.dependency[d])]
    /\ \A f \in ObjectsOf(fileset, "Field") :
          /\ "extendee" \in heap[f].proto.has =>
                /\ "extendee" \in DOMAIN heap[f]
                /\ heap[f].extendee = DeclaredMessage(req, heap[f].proto.extendee)
          /\ heap[f].kind = "MESSAGE" =>
                heap[f].message = DeclaredMessage(req, heap[f].proto.type_name)
          /\ heap[f].kind = "ENUM" =>
                heap[f].enum = DeclaredEnum(req, heap[f].proto.type_name)
    /\ \A m \in ObjectsOf(fileset, "Method") :
          /\ heap[m].input = DeclaredMessage(req, heap[m].proto.input_type)
          /\ heap[m].output = DeclaredMessage(req, heap[m].proto.output_type)

RegistryOps == {"file_by_name", "message_by_name", "enum_by_name"}

ResolverOps == {"resolve_message_type_name", "resolve_enum_type_name"}

EntityOps == {"Field._resolve", "Method._resolve"}

LastIndex(ops) ==
    IF \E k \in 1..Len(calls) : calls[k].op \in ops
    THEN CHOOSE k \in 1..Len(calls) :
            /\ calls[k].op \in ops
            /\ \A m \in (k + 1)..Len(calls) : calls[m].op \notin ops
    ELSE 0

\* File._resolve raised inside the _resolve of this Field or Method (None
\* when it raised in the dependency loop, or did not raise).
FailingEntity ==
    IF pc = "raised" /\ LastIndex(EntityOps) > 0
    THEN calls[LastIndex(EntityOps)].arg ELSE None

RaisedInField(kinds) ==
    /\ FailingEntity # None
    /\ heap[FailingEntity].cls = "Field"
    /\ heap[FailingEntity].kind \in kinds

\* The text of the reference File._resolve was resolving when it raised.
FailingReference == calls[LastIndex(ResolverOps \cup {"file_by_name"})].arg

----------------------------------------------------------------------------
(* The claims. *)

\* C1: in one run of Options.run every File._register call precedes every
\* File._resolve call.
C1_RegisterBeforeResolve ==
    \A i, j \in 1..Len(events) :
        (events[i].op = "register" /\ events[j].op = "resolve") => i < j

\* C2: when every field type, extendee, method input/output and dependency
\* of the request names a declaration of some file of the request, the run
\* does not fail, whatever the order of the files, and once the loop of
\* Options.run is over every reference is linked to its target.
C2_ResolvesInAnyOrder ==
    TargetsDeclared(req) =>
        /\ pc # "raised"
        /\ pc \in {"callback", "done"} => Linked(1..Len(req.proto_file))

\* C3: a message-kind field of file A that references a message declared
\* in another file B of the request is linked to B's message when
\* File._resolve on A returns, B being registered; and File._resolve on A
\* while B is not registered fails at that field with a ResolutionError.
C3_CrossFileField ==
    /\ \A f \in ObjectsOf(ResolvedFiles, "Field") :
          (/\ heap[f].kind = "MESSAGE"
           /\ DeclaredMessage(req, heap[f].proto.type_name) # None
           /\ DeclaredMessage(req, heap[f].proto.type_name)[1] # f[1])
          => heap[f].message = DeclaredMessage(req, heap[f].proto.type_name)
    /\ (/\ RaisedInField({"MESSAGE"})
        /\ "type_name" \in heap[FailingEntity].proto.has
        /\ "extendee" \notin heap[FailingEntity].proto.has
        /\ DeclaredMessage(req, heap[FailingEntity].proto.type_name) # None
        /\ DeclaredMessage(req, heap[FailingEntity].proto.type_name)
               \notin DOMAIN heap)
       => exc.type = "ResolutionError"

\* C4: Field._resolve on a field of kind MESSAGE or ENUM that has no type
\* reference raises InvalidDescriptorError, and makes no Registry lookup
\* before raising it; extension fields included.
C4_InvalidDescriptorFirst ==
    (/\ RaisedInField({"MESSAGE", "ENUM"})
     /\ "type_name" \notin heap[FailingEntity].proto.has)
    => /\ exc.type = "InvalidDescriptorError"
       /\ LastIndex(RegistryOps) < LastIndex(EntityOps)

\* C5: a type reference that does not begin with "." is never accepted as
\* resolved, and the condition raised for it is distinct from the one an
\* unresolved absolute reference raises.
C5_RelativeReferenceRejected ==
    /\ \A f \in ObjectsOf(ResolvedFiles, "Field") :
          /\ "extendee" \in heap[f].proto.has => IsAbsolute(heap[f].proto.extendee)
          /\ heap[f].kind \in {"MESSAGE", "ENUM"} =>
                IsAbsolute(heap[f].proto.type_name)
    /\ \A m \in ObjectsOf(ResolvedFiles, "Method") :
          /\ IsAbsolute(heap[m].proto.input_type)
          /\ IsAbsolute(heap[m].proto.output_type)
    /\ (/\ FailingEntity # None
        /\ calls[Len(calls)].op \in ResolverOps
        /\ ~IsAbsolute(FailingReference))
       => exc.type \notin {"ResolutionError", "TypeError"}

\* C6: every failure of File._resolve other than an invalid descriptor is a
\* ResolutionError carrying the name of the file being resolved, the full
\* name of the referencing entity and the text of the unresolved reference.
C6_ResolutionErrorCarries ==
    (pc = "raised" /\ exc.type # "InvalidDescriptorError")
    => /\ exc.type = "ResolutionError"
       /\ exc.file = req.proto_file[idx].name
       /\ exc.desc = IF FailingEntity = None THEN req.proto_file[idx].name
                     ELSE heap[FailingEntity].full_name
       /\ exc.ref = FailingReference

\* C7: a run in which resolution failed ends with a response carrying one
\* error message and no files; files are emitted only by a run without
\* failure.
C7_FailureYieldsErrorResponse ==
    /\ pc = "raised" =>
          /\ Len(output) = 1
          /\ output[1].has = {"error"}
          /\ output[1].file = <<>>
    /\ (Len(output) > 0 /\ output[1].file # <<>>) => exc = NoException

\* C8: after any sequence of new_generated_file and error calls, the
\* response carries the first error recorded and no file, or, when error was
\* never called, one entry per GeneratedFile created, in creation order; and
\* that response is what Options.run writes.
C8_ResponseShape ==
    pc \in {"callback", "done"} =>
        LET r == Plugin_response(plugin) IN
        /\ IF cb.errors # <<>>
           THEN /\ r.has = {"error"}
                /\ r.error = cb.errors[1]
                /\ r.file = <<>>
           ELSE /\ r.has = {}
                /\ Len(r.file) = Len(cb.created)
                /\ \A i \in 1..Len(cb.created) :
                      /\ r.file[i].name = cb.created[i]
                      /\ r.file[i] = GeneratedFile_proto(plugin.generated_files[i])
        /\ pc = "done" => output = <<r>>

C8_Witness ==
    /\ pc = "done"
    /\ cb.errors = <<>>
    /\ Len(cb.created) = 2
    /\ cb.created[1] # cb.created[2]
    /\ Len(output[1].file) = 2

\* The nested messages a message descriptor declares that are not flagged
\* as map entries, in declaration order.
PlainNested(m) ==
    SelectSeq(ChildIds(m, 3, Len(heap[m].proto.nested_type)),
              LAMBDA c : ~(/\ "options" \in heap[c].proto.has
                           /\ "map_entry" \in heap[c].proto.options.has
                           /\ heap[c].proto.options.map_entry))

IsEntryField(f) ==
    /\ heap[f].message # None
    /\ "options" \in heap[heap[f].message].proto.has
    /\ "map_entry" \in heap[heap[f].message].proto.options.has
    /\ heap[heap[f].message].proto.options.map_entry

\* C9: after Message._resolve the nested-message list holds exactly the
\* nested messages not flagged as map entries, in declaration order; for a
\* field whose message type is a map entry, map_key() is the Field built from
\* the entry's first field descriptor and map_value() the one built from its
\* second; both are None for any other field.
C9_MapEntryFilter ==
    /\ \A m \in ObjectsOf(ResolvedFiles, "Message") :
          heap[m].messages = PlainNested(m)
    /\ \A f \in ObjectsOf(ResolvedFiles, "Field") :
          IF IsEntryField(f)
          THEN /\ Field_map_key(heap, heap[f]) = heap[f].message \o <<2, 0>>
               /\ heap[Field_map_key(heap, heap[f])].proto =
                      heap[heap[f].message].proto.field[1]
               /\ Field_map_value(heap, heap[f]) = heap[f].message \o <<2, 1>>
               /\ heap[Field_map_value(heap, heap[f])].proto =
                      heap[heap[f].message].proto.field[2]
          ELSE /\ Field_map_key(heap, heap[f]) = None
               /\ Field_map_value(heap, heap[f]) = None

C9_Witness ==
    \E m \in ObjectsOf(ResolvedFiles, "Message") :
        /\ Len(heap[m].messages) > 0
        /\ Len(heap[m].messages) < Len(heap[m].proto.nested_type)
        /\ \E i \in 1..Len(heap[m].fields) : IsEntryField(heap[m].fields[i])
        /\ \E i \in 1..Len(heap[m].fields) : ~IsEntryField(heap[m].fields[i])

\* C10: every EnumValue has a full_name: the full name of the message its
\* enum is nested in, or the package for a top-level enum, then "." and the
\* name of the value.
C10_EnumValueFullName ==
    \A v \in DOMAIN heap :
        heap[v].cls = "EnumValue" =>
            /\ "full_name" \in DOMAIN heap[v]
            /\ heap[v].full_name =
                  (IF heap[heap[v].parent].parent = None
                   THEN heap[heap[heap[v].parent].parent_file].proto.package
                   ELSE heap[heap[heap[v].parent].parent].full_name)
                  \o Dot \o heap[v].proto.name

NamedClasses == {"Message", "Enum", "Field", "OneOf", "Service", "Method"}

\* The declaration an object is declared in: its id without the last
\* (field number, index) step; a File for a top-level declaration.
Owner(id) == SubSeq(id, 1, Len(id) - 2)

\* C11: every Message, Enum, Field, OneOf, Service and Method of a built
\* tree has full_name = the full_name of the declaration it is declared in,
\* "." and its name, or the package of its file, "." and its name when it
\* is declared at top level; at every nesting depth.
C11_FullNames ==
    \A id \in DOMAIN heap :
        heap[id].cls \in NamedClasses =>
            heap[id].full_name =
                (IF heap[Owner(id)].cls = "File"
                 THEN heap[Owner(id)].proto.package
                 ELSE heap[Owner(id)].full_name)
                \o Dot \o heap[id].proto.name

C11_Witness ==
    /\ \E id \in DOMAIN heap : heap[id].cls = "Field" /\ Len(id) = 7
    /\ \E id \in DOMAIN heap : heap[id].cls = "Field" /\ Len(id) = 3
    /\ \E id \in DOMAIN heap : heap[id].cls = "Enum" /\ Len(id) = 5
    /\ \E id \in DOMAIN heap : heap[id].cls = "OneOf"
    /\ \E id \in DOMAIN heap : heap[id].cls = "Method"

----------------------------------------------------------------------------
(* The calls on gf. *)

\* the GeneratedFile the k-th call left
Post(k) == IF k < Len(glog) THEN glog[k + 1].pre ELSE gf

CallsOf(ops) == {k \in 1..Len(glog) : glog[k].op \in ops}

RECURSIVE Concat(_)
Concat(texts) ==
    IF Len(texts) = 0 THEN <<>> ELSE Head(texts) \o Concat(Tail(texts))

\* what one part of a line is expected to render as in the module `own`
Rendering(own, part) ==
    IF part.type = "PyIdent"
    THEN IF part.value.py_import_path.path = own
         THEN part.value.py_name
         ELSE part.value.py_import_path.path \o <<".">> \o part.value.py_name
    ELSE IF part.type = "int" THEN str_int(part.value)
    ELSE part.value

LineText(own, args) ==
    Concat([i \in 1..Len(args) |-> Rendering(own, args[i])])

\* the modules other than `own` the identifiers among args belong to
ModulesOf(own, args) ==
    {args[i].value.py_import_path.path :
        i \in {j \in 1..Len(args) : args[j].type = "PyIdent"}} \ {own}

ModuleSet(g) == {g.imports[i].path : i \in 1..Len(g.imports)}

HasNewline(text) == \E i \in 1..Len(text) : text[i] = "\n"

Unindented(k) ==
    glog[k].pre.indent = 0 \/ Len(LineText(OwnModule, glog[k].args)) > 0

\* C12: P appends one line, the concatenation of its parts with no
\* separator, where an identifier of the buffer's own module is its bare
\* name and leaves the pending imports as they were, and an identifier of
\* another module is module.name and adds that module to the pending
\* imports; qualified_py_ident returns the same rendering with the same
\* effect on the imports, and writes no line.
C12_Rendering ==
    /\ \A k \in CallsOf({"P"}) :
          /\ Len(Post(k).buf) = Len(glog[k].pre.buf) + 1
          /\ (~HasNewline(LineText(OwnModule, glog[k].args)) /\ Unindented(k))
             => Post(k).buf[Len(Post(k).buf)] =
                    [i \in 1..glog[k].pre.indent |-> " "]
                    \o LineText(OwnModule, glog[k].args)
          /\ ModuleSet(Post(k)) =
                ModuleSet(glog[k].pre) \cup ModulesOf(OwnModule, glog[k].args)
          /\ ModulesOf(OwnModule, glog[k].args) \subseteq ModuleSet(glog[k].pre)
             => Post(k).imports = glog[k].pre.imports
    /\ \A k \in CallsOf({"qualified_py_ident"}) :
          /\ glog[k].ret = Rendering(OwnModule, IdentArg(glog[k].args))
          /\ Post(k).buf = glog[k].pre.buf
          /\ ModuleSet(Post(k)) =
                ModuleSet(glog[k].pre)
                \cup ModulesOf(OwnModule, <<IdentArg(glog[k].args)>>)
          /\ glog[k].args.py_import_path.path = OwnModule
             => Post(k) = glog[k].pre

C12_Witness ==
    /\ \E k \in CallsOf({"P"}) :
          /\ glog[k].args = <<IdentArg(IdentOwn)>>
          /\ Post(k).buf[Len(Post(k).buf)] = <<"A">>
          /\ Post(k).imports = glog[k].pre.imports
    /\ \E k \in CallsOf({"P"}) :
          /\ Len(glog[k].args) = 3
          /\ ModuleB \notin ModuleSet(glog[k].pre)
          /\ ModuleB \in ModuleSet(Post(k))
    /\ \E k \in CallsOf({"qualified_py_ident"}) :
          glog[k].ret = ModuleB \o <<".", "B">>

\* the most recent print_import call (0 when there was none)
LastMark ==
    IF CallsOf({"print_import"}) = {} THEN 0
    ELSE CHOOSE m \in CallsOf({"print_import"}) :
            \A k \in CallsOf({"print_import"}) : k <= m

\* the modules other than the buffer's own referenced by the calls so far
Referenced ==
    UNION ({ModulesOf(OwnModule, glog[k].args) : k \in CallsOf({"P"})}
           \cup {ModulesOf(OwnModule, <<IdentArg(glog[k].args)>>) :
                    k \in CallsOf({"qualified_py_ident"})})

ImportLineOf(module) == <<"import ">> \o module

\* the lines written before the most recent print_import call
Before == glog[LastMark].pre.buf

\* the lines written after it
After == SubSeq(gf.buf, Len(Before) + 1, Len(gf.buf))

\* C13: once print_import was called, sealing gives the lines written
\* before the most recent print_import call, then the import lines, then
\* the lines written after that call, each group in write order; earlier
\* print_import calls do not show.
C13_SpliceAtLastMark ==
    /\ LastMark > 0 =>
          /\ SubSeq(gf.buf, 1, Len(Before)) = Before
          /\ Len(GeneratedFile_lines(gf)) >= Len(Before) + Len(After)
          /\ SubSeq(GeneratedFile_lines(gf), 1, Len(Before)) = Before
          /\ SubSeq(GeneratedFile_lines(gf),
                    Len(GeneratedFile_lines(gf)) - Len(After) + 1,
                    Len(GeneratedFile_lines(gf))) = After
          /\ {GeneratedFile_lines(gf)[i] :
                 i \in (Len(Before) + 1)
                       ..(Len(GeneratedFile_lines(gf)) - Len(After))}
             = {ImportLineOf(m) : m \in Referenced}
    /\ \A k \in CallsOf({"_proto"}) :
          glog[k].ret = [name |-> OwnName,
                         content |-> join(<<"\n">>,
                                          GeneratedFile_lines(glog[k].pre))]

C13_Witness ==
    /\ Len(glog) = 4
    /\ glog[1].op = "print_import"
    /\ glog[2].op = "P"
    /\ glog[3].op = "print_import"
    /\ glog[4].op = "P"
    /\ Referenced # {}
    /\ GeneratedFile_lines(gf)[1] = gf.buf[1]
    /\ GeneratedFile_lines(gf)[2] \in {ImportLineOf(m) : m \in Referenced}

\* the PyImportPath objects the identifiers written by P so far came with
ObjectsWritten ==
    UNION {{glog[k].args[i].value.py_import_path.oid :
               i \in {j \in 1..Len(glog[k].args) :
                         glog[k].args[j].type = "PyIdent"}} :
           k \in CallsOf({"P"})}

Occurrences(lines, line) == Cardinality({i \in 1..Len(lines) : lines[i] = line})

\* C14: with the import point marked, sealing gives exactly one import line
\* for each distinct module referenced, however often and through however
\* many PyImportPath objects of the same path it was referenced, and no
\* other line between the lines written before and after the mark.
C14_OneImportPerModule ==
    LastMark > 0 =>
        /\ \A m \in Referenced :
              Occurrences(GeneratedFile_lines(gf), ImportLineOf(m)) = 1
        /\ Len(GeneratedFile_lines(gf)) = Len(gf.buf) + Cardinality(Referenced)
        /\ Occurrences(GeneratedFile_lines(gf), ImportLineOf(OwnModule)) = 0

C14_Witness ==
    /\ LastMark = Len(glog)
    /\ Referenced = {ModuleB, ModuleC}
    /\ {2, 3} \subseteq ObjectsWritten
    /\ Occurrences(GeneratedFile_lines(gf), ImportLineOf(ModuleB)) = 1

\* C15: while print_import was never called, sealing gives exactly the
\* lines written, in write order, and no import line, whatever modules were
\* referenced.
C15_NoMarkNoImports ==
    LastMark = 0 =>
        /\ GeneratedFile_lines(gf) = gf.buf
        /\ Len(gf.buf) = Cardinality(CallsOf({"P"}))
        /\ \A k \in CallsOf({"P"}) :
              SubSeq(gf.buf, 1, Len(Post(k).buf)) = Post(k).buf
        /\ \A m \in Referenced \cup {OwnModule} :
              Occurrences(GeneratedFile_lines(gf), ImportLineOf(m)) = 0
        /\ \A k \in CallsOf({"_proto"}) :
              glog[k].ret.content = join(<<"\n">>, glog[k].pre.buf)

C15_Witness ==
    /\ LastMark = 0
    /\ Referenced = {ModuleB, ModuleC}
    /\ Len(gf.buf) = 2
    /\ glog[Len(glog)].op = "_proto"
    /\ glog[Len(glog)].ret.content = join(<<"\n">>, gf.buf)

\* the line the P call k appended
LineOf(k) == Post(k).buf[Len(Post(k).buf)]

\* the set_indent calls that returned
IndentCalls == {k \in CallsOf({"set_indent"}) : glog[k].exc = NoException}

\* C16: every line P appends is its rendered text behind as many spaces as
\* the indentation level in force, also when the rendered text is empty.
C16_EveryLineIndented ==
    \A k \in CallsOf({"P"}) :
        ~HasNewline(LineText(OwnModule, glog[k].args))
        => LineOf(k) = [i \in 1..glog[k].pre.indent |-> " "]
                       \o LineText(OwnModule, glog[k].args)

\* C17: set_indent(n), n >= 0, returns the level in force before it and
\* changes nothing but the level; a later set_indent of the value returned
\* brings back the level of before the first call: the lines that were in
\* the buffer are as they were and a line written next renders as it would
\* have before the first call.
C17_IndentRoundTrip ==
    /\ \A k \in IndentCalls :
          /\ glog[k].args >= 0
          /\ glog[k].ret = glog[k].pre.indent
          /\ Post(k) = [glog[k].pre EXCEPT !.indent = glog[k].args]
    /\ \A k, j \in IndentCalls :
          (k < j /\ glog[j].args = glog[k].ret)
          => /\ Post(j).indent = glog[k].pre.indent
             /\ SubSeq(Post(j).buf, 1, Len(glog[k].pre.buf)) = glog[k].pre.buf
             /\ \A args \in PArgs :
                   GeneratedFile_P(Post(j), args).buf[Len(Post(j).buf) + 1]
                   = GeneratedFile_P(glog[k].pre, args)
                        .buf[Len(glog[k].pre.buf) + 1]

C17_Witness ==
    \E k, j \in IndentCalls :
        /\ k + 1 < j
        /\ glog[j].args = glog[k].ret
        /\ glog[k].ret > 0
        /\ glog[k].args # glog[k].ret
        /\ glog[k + 1].op = "P"
        /\ Post(j).indent = glog[k].ret

\* C18: indentation scopes add up: a line written after set_indent(a) and,
\* with no restore in between, set_indent(b), starting from level 0, is
\* rendered at depth a + b.
C18_NestedIndentAdds ==
    \A k \in IndentCalls :
        (/\ k + 2 <= Len(glog)
         /\ k + 1 \in IndentCalls
         /\ glog[k].pre.indent = 0
         /\ glog[k + 1].args # glog[k].ret
         /\ glog[k + 2].op = "P"
         /\ Len(LineText(OwnModule, glog[k + 2].args)) > 0
         /\ ~HasNewline(LineText(OwnModule, glog[k + 2].args)))
        => LineOf(k + 2) = [i \in 1..(glog[k].args + glog[k + 1].args) |-> " "]
                           \o LineText(OwnModule, glog[k + 2].args)

\* C19: set_indent with a negative level raises ValueError and leaves the
\* level, the lines, the imports and the import mark as they were.
C19_NegativeIndentRejected ==
    \A k \in CallsOf({"set_indent"}) :
        glog[k].args < 0
        => /\ glog[k].exc = [type |-> "ValueError"]
           /\ Post(k) = glog[k].pre

C19_Witness ==
    \E k \in CallsOf({"set_indent"}) :
        /\ glog[k].args < 0
        /\ glog[k].exc.type = "ValueError"
        /\ glog[k].pre.indent > 0
        /\ Len(glog[k].pre.buf) > 0
        /\ Len(glog[k].pre.imports) > 0
        /\ glog[k].pre.import_mark > -1

\* C20: once _proto has serialized a GeneratedFile it is sealed: no later
\* P, set_indent, qualified_py_ident or print_import changes its lines, its
\* imports or its import mark.
C20_SealedIsFinal ==
    \A k \in CallsOf({"_proto"}) :
        /\ gf.buf = glog[k].pre.buf
        /\ ModuleSet(gf) = ModuleSet(glog[k].pre)
        /\ gf.import_mark = glog[k].pre.import_mark

----------------------------------------------------------------------------
(* Links and registrations of the declaration tree. *)

\* C24: every Field has an attribute extendee at every point after its
\* construction: the extended Message once an extension field is
\* resolved, None otherwise.
C24_ExtendeeAlways ==
    \A f \in DOMAIN heap :
        heap[f].cls = "Field" =>
            /\ "extendee" \in DOMAIN heap[f]
            /\ IF "extendee" \in heap[f].proto.has /\ f[1] \in ResolvedFiles
               THEN heap[heap[f].extendee].cls = "Message"
               ELSE heap[f].extendee = None

\* a field of a message whose type reference is that very message
SelfTyped(f) ==
    /\ heap[f].cls = "Field"
    /\ heap[f].kind = "MESSAGE"
    /\ "type_name" \in heap[f].proto.has
    /\ heap[f].parent # None
    /\ heap[f].proto.type_name = <<".">> \o heap[heap[f].parent].full_name

Position(d, k) == CHOOSE i \in 1..Len(d) : d[i].k = k

SameSiblings(a, b) ==
    /\ Len(a) = Len(b)
    /\ SubSeq(a, 1, Len(a) - 1) = SubSeq(b, 1, Len(b) - 1)
    /\ a[Len(a)] < b[Len(b)]

\* C26: after File._register the Registry finds by name the file, each of
\* its messages at every depth, each of its enums, top-level or nested,
\* and each of its services; siblings are registered in declaration order.
C26_RegisterCascade ==
    /\ \A id \in DOMAIN heap :
          /\ heap[id].cls = "File" =>
                file_by_name(registry, heap[id].proto.name) = id
          /\ heap[id].cls = "Message" =>
                message_by_name(registry, heap[id].full_name) = id
          /\ heap[id].cls = "Enum" =>
                enum_by_name(registry, heap[id].full_name) = id
          /\ heap[id].cls = "Service" =>
                service_by_name(registry, heap[id].full_name) = id
    /\ \A a, b \in DOMAIN heap :
          (SameSiblings(a, b) /\ heap[a].cls = heap[b].cls) =>
              /\ heap[a].cls = "Message" =>
                    Position(registry.messages_by_name, heap[a].full_name)
                    < Position(registry.messages_by_name, heap[b].full_name)
              /\ heap[a].cls = "Enum" =>
                    Position(registry.enums_by_name, heap[a].full_name)
                    < Position(registry.enums_by_name, heap[b].full_name)

C26_Witness ==
    /\ pc = "resolve"
    /\ \E a, b \in DOMAIN heap :
          /\ SameSiblings(a, b)
          /\ Len(a) = 5
          /\ heap[a].cls = "Message"
          /\ heap[b].cls = "Message"
          /\ message_by_name(registry, heap[b].full_name) = b
    /\ \E e \in DOMAIN heap :
          /\ heap[e].cls = "Enum"
          /\ Len(e) = 5
          /\ enum_by_name(registry, heap[e].full_name) = e
    /\ \E e \in DOMAIN heap : heap[e].cls = "Enum" /\ Len(e) = 3

IsA(id, cls) == id \in DOMAIN heap /\ heap[id].cls = cls

\* C28: after File._resolve returned normally every ENUM field links to an
\* Enum registered under its type reference, every MESSAGE field to a
\* Message registered under its type reference, and every method's input
\* and output to Messages registered under its input and output
\* references; no link is a value of another type.
C28_LinksAreDeclarations ==
    /\ \A f \in ObjectsOf(ResolvedFiles, "Field") :
          /\ heap[f].kind = "ENUM" =>
                /\ IsA(heap[f].enum, "Enum")
                /\ enum_by_name(registry, DropFirst(heap[f].proto.type_name))
                   = heap[f].enum
          /\ heap[f].kind = "MESSAGE" =>
                /\ IsA(heap[f].message, "Message")
                /\ message_by_name(registry,
                                   DropFirst(heap[f].proto.type_name))
                   = heap[f].message
    /\ \A m \in ObjectsOf(ResolvedFiles, "Method") :
          /\ IsA(heap[m].input, "Message")
          /\ message_by_name(registry, DropFirst(heap[m].proto.input_type))
             = heap[m].input
          /\ IsA(heap[m].output, "Message")
          /\ message_by_name(registry, DropFirst(heap[m].proto.output_type))
             = heap[m].output

----------------------------------------------------------------------------
(* Comments of the declarations. *)

\* the text `s` without the spaces that begin a line of it
RECURSIVE WithoutLineStartSpace(_, _)
WithoutLineStartSpace(s, k) ==
    IF k > Len(s) THEN <<>>
    ELSE IF s[k] = " " /\ (k = 1 \/ s[k - 1] = "\n")
         THEN WithoutLineStartSpace(s, k + 1)
         ELSE <<s[k]>> \o WithoutLineStartSpace(s, k + 1)

Commented(h) ==
    {id \in DOMAIN h :
        /\ h[id].cls = "Message"
        /\ \E i \in 1..Len(h[<<id[1]>>].proto.source_code_info) :
              h[<<id[1]>>].proto.source_code_info[i].path = Tail(id)}

CommentOf(h, id) ==
    LET locs == h[<<id[1]>>].proto.source_code_info
    IN  locs[CHOOSE i \in 1..Len(locs) : locs[i].path = Tail(id)]

\* C27: comment cleanup changes a comment only by removing one leading space
\* from each line that begins with one; every other character of the text,
\* the line terminators and a final newline included, is kept as it was.
C27_CleanupKeepsTheRest ==
    \A id \in Commented(heap) :
        /\ heap[id].location.leading_comments
           = WithoutLineStartSpace(CommentOf(heap, id).leading_comments, 1)
        /\ \A i \in 1..Len(CommentOf(heap, id).leading_detached_comments) :
              heap[id].location.leading_detached_comments[i]
              = WithoutLineStartSpace(
                    CommentOf(heap, id).leading_detached_comments[i], 1)

----------------------------------------------------------------------------
(* Requests of one file, with a parameter string or with an empty package. *)

MaxParamLen == 5

ParamTokens == {"k", "v", ",", "="}

ExampleParameter ==
    <<"k1", "=", "v1", ",", "k2", "=", "v2", "=", "v3", ",", "k4", ",", ",",
      ",", "k5">>

Parameters ==
    UNION {[1..n -> ParamTokens] : n \in 0..MaxParamLen} \cup {ExampleParameter}

FileNameD == <<"pd", ".proto">>

\* A file without package: message M refers to itself or to the enum E.
DVariants == {"message", "enum"}

FileD(v) ==
    FileProto(FileNameD, <<>>, <<>>,
              << MessageProto("M",
                    << IF v = "message"
                       THEN TypedField("self", 11, 1, AbsRef(<<"M">>))
                       ELSE TypedField("e", 14, 1, AbsRef(<<"E">>)) >>,
                    <<>>, <<>>, <<>>, <<>>, NoOptions) >>,
              << EnumProto("E", <<"ZERO">>) >>, <<>>, <<>>)

RequestsIO ==
    { [proto_file |-> <<FileC>>, file_to_generate |-> "all", parameter |-> p] :
        p \in Parameters }
    \cup
    { [proto_file |-> <<FileD(v)>>, file_to_generate |-> "all",
       parameter |-> <<>>] : v \in DVariants }

InitIO ==
    /\ req \in RequestsIO
    /\ pc = "register"
    /\ idx = 1
    /\ heap = <<>>
    /\ registry = Registry_init
    /\ files_to_generate = <<>>
    /\ events = <<>>
    /\ calls = <<>>
    /\ exc = NoException
    /\ plugin = Plugin_init(<<>>, <<>>)
    /\ cb = [created |-> <<>>, errors |-> <<>>]
    /\ output = <<>>
    /\ gf = None
    /\ glog = <<>>
    /\ rlog = <<>>

NextIO ==
    \/ RegisterFile
    \/ ResolveFile
    \/ WriteResponse

SpecIO == InitIO /\ [][NextIO]_vars

----------------------------------------------------------------------------
(* The parameter string. *)

\* s[a..b] is a token of s: a longest non-empty stretch without a comma
IsToken(s, a, b) ==
    /\ a <= b
    /\ \A i \in a..b : s[i] # ","
    /\ a = 1 \/ s[a - 1] = ","
    /\ b = Len(s) \/ s[b + 1] = ","

TokensOf(s) ==
    {t \in (1..Len(s)) \X (1..Len(s)) : IsToken(s, t[1], t[2])}

\* where the token t of s is cut: at its first "=", or behind its end
CutOf(s, t) ==
    IF \E i \in t[1]..t[2] : s[i] = "="
    THEN CHOOSE i \in t[1]..t[2] :
            s[i] = "=" /\ \A j \in t[1]..(i - 1) : s[j] # "="
    ELSE t[2] + 1

KeyOf(s, t) == SubSeq(s, t[1], CutOf(s, t) - 1)

ValueOf(s, t) == SubSeq(s, CutOf(s, t) + 1, t[2])

ParameterParsed == pc \in {"callback", "done"}

\* C22: the parameter mapping of the plugin has exactly the keys of the
\* non-empty comma-separated tokens of the parameter string, the key being
\* the part of a token before its first "=", and maps each key to the part
\* behind that first "=" (the empty string without one) of the last token
\* that has the key.
C22_ParameterParsing ==
    ParameterParsed =>
        /\ \A i, j \in 1..Len(plugin.parameter) :
              plugin.parameter[i].k = plugin.parameter[j].k => i = j
        /\ \A i \in 1..Len(plugin.parameter) :
              \E t \in TokensOf(req.parameter) :
                  KeyOf(req.parameter, t) = plugin.parameter[i].k
        /\ \A t \in TokensOf(req.parameter) :
              /\ DictHas(plugin.parameter, KeyOf(req.parameter, t))
              /\ (\A u \in TokensOf(req.parameter) :
                     KeyOf(req.parameter, u) = KeyOf(req.parameter, t)
                        => u[1] <= t[1])
                 => DictGet(plugin.parameter, KeyOf(req.parameter, t))
                    = ValueOf(req.parameter, t)

C22_Witness ==
    /\ pc = "done"
    /\ req.parameter = ExampleParameter
    /\ plugin.parameter =
          << [k |-> <<"k1">>, v |-> <<"v1">>],
             [k |-> <<"k2">>, v |-> <<"v2", "=", "v3">>],
             [k |-> <<"k4">>, v |-> <<>>],
             [k |-> <<"k5">>, v |-> <<>>] >>

----------------------------------------------------------------------------
(* Files without a package. *)

\* the dotted name of the declaration id: the names of the declarations
\* around it and its own, behind the package where the file has one
RECURSIVE DottedName(_, _)
DottedName(h, id) ==
    IF h[id].parent # None
    THEN DottedName(h, h[id].parent) \o Dot \o h[id].proto.name
    ELSE IF h[<<id[1]>>].proto.package = <<>>
         THEN h[id].proto.name
         ELSE h[<<id[1]>>].proto.package \o Dot \o h[id].proto.name

\* the field f of h names the declaration d of h by its absolute name
NamesDeclaration(h, f, d) ==
    /\ h[f].cls = "Field"
    /\ "type_name" \in h[f].proto.has
    /\ \/ h[f].kind = "MESSAGE" /\ h[d].cls = "Message"
       \/ h[f].kind = "ENUM" /\ h[d].cls = "Enum"
    /\ h[f].proto.type_name = Dot \o DottedName(h, d)

\* C29: with or without a package, a field whose type reference is "."
\* followed by the dotted name of a message or enum of the compilation unit
\* is linked to that declaration by File._resolve, which does not fail at
\* such a field.
C29_EmptyPackageResolves ==
    /\ \A f \in ObjectsOf(ResolvedFiles, "Field") :
          \A d \in DOMAIN heap :
              NamesDeclaration(heap, f, d) =>
                  IF heap[f].kind = "MESSAGE" THEN heap[f].message = d
                  ELSE heap[f].enum = d
    /\ FailingEntity # None =>
          \A d \in DOMAIN heap : ~NamesDeclaration(heap, FailingEntity, d)

----------------------------------------------------------------------------
(* The Registry in the hands of a caller: entities of two files that bear  *)
(* the same names are registered in any order, and the registry is asked   *)
(* to resolve a message name relative to a scope.                          *)

MaxRegistryCalls == 3

FileNameR == <<"r", ".proto">>

FileR ==
    FileProto(FileNameR, <<"acme">>, <<>>,
              << MessageProto("Hello", <<>>,
                    << MessageProto("World", <<>>, <<>>, <<>>, <<>>, <<>>,
                                    NoOptions) >>,
                    <<>>, <<>>, <<>>, NoOptions) >>,
              << EnumProto("E", <<"ZERO">>) >>,
              << [name |-> <<"S">>, method |-> <<>>] >>,
              <<>>)

TreeR == File_init(FileR, TRUE, <<1>>) @@ File_init(FileR, TRUE, <<2>>)

\* the attributes of a Registry object
RegistryAttributes ==
    {"_services_by_name", "_messages_by_name", "_enums_by_name",
     "_files_by_name", "_register_file", "_register_service",
     "_register_message", "_register_enum", "file_by_name", "service_by_name",
     "message_by_name", "enum_by_name", "all_files", "all_services",
     "all_messages", "all_enums", "files_by_package", "services_by_package",
     "messages_by_package", "enums_by_package"}

\* registry.<name>: the attribute, or AttributeError
getattr(attributes, name) ==
    IF name \in attributes THEN NoException
    ELSE [type |-> "AttributeError", name |-> name]

Scopes == { <<"acme", ".", "Hello">>, <<"acme", ".", "cloud">>, <<>> }

ScopedNames == { <<"World">>, <<"Hello">>, <<"acme", ".", "Hello">> }

InitR ==
    /\ req = [proto_file |-> <<FileR, FileR>>, file_to_generate |-> "all",
              parameter |-> <<>>]
    /\ pc = "registry"
    /\ idx = 1
    /\ heap = TreeR
    /\ registry = Registry_init
    /\ files_to_generate = <<>>
    /\ events = <<>>
    /\ calls = <<>>
    /\ exc = NoException
    /\ plugin = Plugin_init(<<>>, <<>>)
    /\ cb = [created |-> <<>>, errors |-> <<>>]
    /\ output = <<>>
    /\ gf = None
    /\ glog = <<>>
    /\ rlog = <<>>

\* registry._register_file(file)
CallRegisterFile ==
    /\ Len(rlog) < MaxRegistryCalls
    /\ \E id \in {i \in DOMAIN heap : heap[i].cls = "File"} :
          /\ registry' = register_file(registry, heap[id])
          /\ rlog' = Append(rlog, [op |-> "_register_file", arg |-> id,
                                   pre |-> registry, ret |-> None,
                                   exc |-> NoException])
    /\ UNCHANGED <<req, pc, idx, heap, files_to_generate, events, calls, exc,
                   plugin, cb, output, gf, glog>>

\* registry._register_service(service)
CallRegisterService ==
    /\ Len(rlog) < MaxRegistryCalls
    /\ \E id \in {i \in DOMAIN heap : heap[i].cls = "Service"} :
          /\ registry' = register_service(registry, heap[id])
          /\ rlog' = Append(rlog, [op |-> "_register_service", arg |-> id,
                                   pre |-> registry, ret |-> None,
                                   exc |-> NoException])
    /\ UNCHANGED <<req, pc, idx, heap, files_to_generate, events, calls, exc,
                   plugin, cb, output, gf, glog>>

\* registry._register_message(message)
CallRegisterMessage ==
    /\ Len(rlog) < MaxRegistryCalls
    /\ \E id \in {i \in DOMAIN heap : heap[i].cls = "Message"} :
          /\ registry' = register_message(registry, heap[id])
          /\ rlog' = Append(rlog, [op |-> "_register_message", arg |-> id,
                                   pre |-> registry, ret |-> None,
                                   exc |-> NoException])
    /\ UNCHANGED <<req, pc, idx, heap, files_to_generate, events, calls, exc,
                   plugin, cb, output, gf, glog>>

\* registry._register_enum(enum)
CallRegisterEnum ==
    /\ Len(rlog) < MaxRegistryCalls
    /\ \E id \in {i \in DOMAIN heap : heap[i].cls = "Enum"} :
          /\ registry' = register_enum(registry, heap[id])
          /\ rlog' = Append(rlog, [op |-> "_register_enum", arg |-> id,
                                   pre |-> registry, ret |-> None,
                                   exc |-> NoException])
    /\ UNCHANGED <<req, pc, idx, heap, files_to_generate, events, calls, exc,
                   plugin, cb, output, gf, glog>>

\* registry.resolve_message_type(scope, name): the attribute lookup comes
\* before the call
CallResolveMessageType ==
    /\ Len(rlog) < MaxRegistryCalls
    /\ \E scope \in Scopes, name \in ScopedNames :
          rlog' = Append(rlog, [op |-> "resolve_message_type",
                                arg |-> <<scope, name>>,
                                pre |-> registry, ret |-> None,
                                exc |-> getattr(RegistryAttributes,
                                                "resolve_message_type")])
    /\ UNCHANGED <<req, pc, idx, heap, registry, files_to_generate, events,
                   calls, exc, plugin, cb, output, gf, glog>>

NextR ==
    \/ CallRegisterFile
    \/ CallRegisterService
    \/ CallRegisterMessage
    \/ CallRegisterEnum
    \/ CallResolveMessageType

SpecR == InitR /\ [][NextR]_vars

----------------------------------------------------------------------------
(* The tables of the Registry. *)

\* the name an entity is registered under
RegisteredName(id) ==
    IF heap[id].cls = "File" THEN heap[id].proto.name ELSE heap[id].full_name

LookedUpNames ==
    {RegisteredName(id) :
        id \in {i \in DOMAIN heap :
                  heap[i].cls \in {"File", "Service", "Message", "Enum"}}}
    \cup { <<"acme", ".", "None">> }

\* the calls of rlog that registered something under the name n with op
RegistrationsOf(op, n) ==
    {k \in 1..Len(rlog) : rlog[k].op = op /\ RegisteredName(rlog[k].arg) = n}

\* the entity the last of the registrations ks put in, None without one
LastRegistered(ks) ==
    IF ks = {} THEN None
    ELSE rlog[CHOOSE k \in ks : \A j \in ks : j <= k].arg

\* C21: each of the four tables of the Registry is a last-writer-wins map.
\* After any sequence of registrations a lookup by name gives the entity
\* registered last under that name, None when none was; no registration
\* raises, a repeated name included.
C21_LastWriterWins ==
    /\ \A n \in LookedUpNames :
          /\ file_by_name(registry, n)
             = LastRegistered(RegistrationsOf("_register_file", n))
          /\ message_by_name(registry, n)
             = LastRegistered(RegistrationsOf("_register_message", n))
          /\ enum_by_name(registry, n)
             = LastRegistered(RegistrationsOf("_register_enum", n))
          /\ service_by_name(registry, n)
             = LastRegistered(RegistrationsOf("_register_service", n))
    /\ \A k \in 1..Len(rlog) :
          rlog[k].op # "resolve_message_type" => rlog[k].exc = NoException

C21_Witness ==
    /\ Len(rlog) = 3
    /\ rlog[1].op = "_register_enum" /\ rlog[1].arg = <<1, 5, 0>>
    /\ rlog[2].op = "_register_enum" /\ rlog[2].arg = <<2, 5, 0>>
    /\ rlog[3].op = "_register_message"
    /\ enum_by_name(registry, <<"acme", ".", "E">>) = <<2, 5, 0>>
    /\ enum_by_name(registry, <<"acme", ".", "None">>) = None

\* the leading parts of the dotted name scope, the empty one included
LeadingParts(scope) ==
    {SubSeq(scope, 1, k) : k \in {j \in 0..Len(scope) :
                                     j = 0 \/ j = Len(scope)
                                     \/ scope[j + 1] = "."}}

ScopedName(part, name) == IF part = <<>> THEN name ELSE part \o Dot \o name

\* the message a walk from the scope outwards finds for name in reg
ScopeWalk(reg, scope, name) ==
    LET found == {p \in LeadingParts(scope) :
                     message_by_name(reg, ScopedName(p, name)) # None}
    IN  IF found = {} THEN None
        ELSE message_by_name(reg,
                 ScopedName(CHOOSE p \in found :
                                \A q \in found : Len(q) <= Len(p), name))

\* C23: Registry.resolve_message_type(scope, name) returns the registered
\* message whose full name is the longest leading part of scope joined
\* with "." and name, so that a nested name is found in the innermost
\* enclosing scope and a fully qualified name from any scope.
C23_ResolveMessageType ==
    \A k \in 1..Len(rlog) :
        rlog[k].op = "resolve_message_type" =>
            /\ rlog[k].exc = NoException
            /\ rlog[k].ret
               = ScopeWalk(rlog[k].pre, rlog[k].arg[1], rlog[k].arg[2])

----------------------------------------------------------------------------
(* The import lines of a sealed buffer. *)

\* the import lines among the lines a sealing of g gives
ImportLinesIn(g) ==
    {GeneratedFile_lines(g)[i] :
        i \in {j \in 1..Len(GeneratedFile_lines(g)) :
                  /\ Len(GeneratedFile_lines(g)[j]) > 0
                  /\ GeneratedFile_lines(g)[j][1] = "import "}}

\* the modules other than the buffer's own referenced by the call k
ReferencedBy(k) ==
    IF glog[k].op = "P" THEN ModulesOf(OwnModule, glog[k].args)
    ELSE IF glog[k].op = "qualified_py_ident"
         THEN ModulesOf(OwnModule, <<IdentArg(glog[k].args)>>)
         ELSE {}

\* C30: once print_import was called, the import lines a sealing gives are
\* those of the distinct modules, other than the buffer's own, referenced
\* by any P or qualified_py_ident call so far, the calls after the last
\* print_import included; the buffer's own module is never imported.
C30_ImportsAreTheReferences ==
    LastMark > 0 =>
        /\ ImportLinesIn(gf) = {ImportLineOf(m) : m \in Referenced}
        /\ ImportLineOf(OwnModule) \notin ImportLinesIn(gf)

C30_Witness ==
    /\ LastMark > 0
    /\ \E k \in 1..Len(glog) :
          /\ k > LastMark
          /\ glog[k].op = "qualified_py_ident"
          /\ ReferencedBy(k) = {ModuleB}
          /\ \A j \in 1..(k - 1) : ModuleB \notin ReferencedBy(j)
    /\ \E k \in 1..Len(glog) :
          /\ glog[k].op = "P"
          /\ \E i \in 1..Len(glog[k].args) :
                /\ glog[k].args[i].type = "PyIdent"
                /\ glog[k].args[i].value.py_import_path.path = OwnModule
    /\ ImportLinesIn(gf) = {ImportLineOf(ModuleB)}

====
